---- MODULE Spec2Model ----
(***************************************************************************)
(* TiRemoteBlockInputStream<RemoteReader>                                 *)
(* (dbms/src/DataStreams/TiRemoteBlockInputStream.h).                      *)
(*                                                                         *)
(* The stream pulls result units from a remote reader, merges the          *)
(* execution summaries they carry into a per-source table, keeps           *)
(* per-connection packet/byte counters and a row total, and hands the      *)
(* decoded blocks to its consumer one at a time.  A second thread          *)
(* (DAGResponseWriter) reads the table through                             *)
(* getRemoteExecutionSummaries while the reading thread fills it.          *)
(***************************************************************************)
EXTENDS Integers, Sequences, FiniteSets, TLC

\* ------------------------------------------------------------------------
\* Bounds of the model
\* ------------------------------------------------------------------------
NumSources == 2
MaxFetches == 2
MaxSummaries == 2
MaxVal == 1
MaxRows == 2
MaxCancels == 1

Sources == 0..(NumSources - 1)
ExecutorIds == {"opA", "opB"}
FieldVals == 0..MaxVal
ErrorMsgs == {"net1", "net2"}
RespErrors == {"remote1", "remote2"}

Max(a, b) == IF a >= b THEN a ELSE b

\* ------------------------------------------------------------------------
\* State
\* ------------------------------------------------------------------------
VARIABLES
    is_streaming_reader,         \* RemoteReader::is_streaming_reader
    stream_id,                   \* partition index given at construction
    block_queue,                 \* std::queue<Block>
    connection_profile_infos,    \* [Sources -> [packets, bytes]]
    total_rows,
    execution_summaries_inited,  \* [Sources -> BOOLEAN]
    execution_summaries,         \* [Sources -> executor id -> summary]
    pc,                          \* position of the reading thread
    result,                      \* the result unit fetchRemoteResult holds
    todo,                        \* summaries of the response still to merge
    ret,                         \* outcome of the last readImpl call
    fetches,                     \* calls of remote_reader->nextResult so far
    last_stream_id,              \* stream_id passed to the last nextResult
    not_found_warnings,          \* "execution {} not found" lines logged
    inited_stores,               \* [Sources -> stores of true to the flag]
    obs,                         \* what the observer's last accessor call got
    rows_received,               \* rows of the data results handed out so far
    arrived,                     \* responses merged one after the other
    cancel_calls,                \* calls of remote_reader->cancel()
    closed,                      \* remote_reader->close() was called
    kills,                       \* the arguments of the cancel(kill) calls
    received,                    \* the results nextResult returned, in order
    delivered,                   \* the blocks readImpl returned, in order
    zero_row_budget              \* results without rows the reader may still
                                 \* return before one that ends the call

vars == <<is_streaming_reader, stream_id, block_queue, connection_profile_infos,
          total_rows, execution_summaries_inited, execution_summaries, pc,
          result, todo, ret, fetches, last_stream_id, not_found_warnings,
          inited_stores, obs, rows_received, arrived, cancel_calls, closed,
          kills, received, delivered, zero_row_budget>>

\* ------------------------------------------------------------------------
\* Values
\* ------------------------------------------------------------------------
\* tipb::ExecutorExecutionSummary as the stream reads it.  The four counters
\* of the entries a remote peer sends are drawn from the vectors whose
\* components add up to at most MaxVal; the counters of an entry without
\* executor id are never read, so one such entry stands for all of them.
SummaryEntries ==
    { e \in [has_executor_id : {TRUE}, executor_id : ExecutorIds,
             time_processed_ns : FieldVals, num_produced_rows : FieldVals,
             num_iterations : FieldVals, concurrency : FieldVals] :
        e.time_processed_ns + e.num_produced_rows
            + e.num_iterations + e.concurrency <= MaxVal }
    \cup
    [has_executor_id : {FALSE}, executor_id : {""},
     time_processed_ns : {0}, num_produced_rows : {0},
     num_iterations : {0}, concurrency : {0}]

\* resp.execution_summaries(): the lists of n entries out of a set
RECURSIVE SeqsOfLen(_, _)
SeqsOfLen(entries, n) ==
    IF n = 0 THEN {<<>>}
    ELSE { Append(q, e) : q \in SeqsOfLen(entries, n - 1), e \in entries }

\* ExecutionSummary: the four fields the table keeps per executor
SummaryOf(e) ==
    [time_processed_ns |-> e.time_processed_ns,
     num_produced_rows |-> e.num_produced_rows,
     num_iterations |-> e.num_iterations,
     concurrency |-> e.concurrency]

EmptyMap == [k \in {} |-> 0]

\* ------------------------------------------------------------------------
\* Execution summary table: initRemoteExecutionSummaries and
\* addRemoteExecutionSummaries, one summary entry at a time
\* ------------------------------------------------------------------------
\* one iteration of the loop of initRemoteExecutionSummaries: the four
\* assignments through operator[] create the entry and overwrite its fields
InitEntry(map, e) ==
    IF e.has_executor_id
    THEN [k \in (DOMAIN map) \cup {e.executor_id} |->
            IF k = e.executor_id THEN SummaryOf(e) ELSE map[k]]
    ELSE map

\* execution_summaries_map.find(executor_id) != end()
KnownExecutor(map, e) == e.executor_id \in DOMAIN map

\* StreamingMerge with the rows added up as the batch branch does
StreamingMerge_SumRows(s, e) ==
    [time_processed_ns |-> Max(s.time_processed_ns, e.time_processed_ns),
     num_produced_rows |-> s.num_produced_rows + e.num_produced_rows,
     num_iterations |-> Max(s.num_iterations, e.num_iterations),
     concurrency |-> Max(s.concurrency, e.concurrency)]

\* is_streaming_call branch: the maximum of every field
StreamingMerge(s, e) ==
    [time_processed_ns |-> Max(s.time_processed_ns, e.time_processed_ns),
     num_produced_rows |-> Max(s.num_produced_rows, e.num_produced_rows),
     num_iterations |-> Max(s.num_iterations, e.num_iterations),
     concurrency |-> Max(s.concurrency, e.concurrency)]

\* BatchMerge with the maximum taken of the rows too
BatchMerge_MaxRows(s, e) ==
    [time_processed_ns |-> Max(s.time_processed_ns, e.time_processed_ns),
     num_produced_rows |-> Max(s.num_produced_rows, e.num_produced_rows),
     num_iterations |-> s.num_iterations + e.num_iterations,
     concurrency |-> s.concurrency + e.concurrency]

\* else branch: the maximum of the time, the sum of the other fields
BatchMerge(s, e) ==
    [time_processed_ns |-> Max(s.time_processed_ns, e.time_processed_ns),
     num_produced_rows |-> s.num_produced_rows + e.num_produced_rows,
     num_iterations |-> s.num_iterations + e.num_iterations,
     concurrency |-> s.concurrency + e.concurrency]

\* AnomalousUpdate without the LOG_FMT_WARNING
AnomalousUpdate_Silent(map, e) == FALSE

\* the entry is skipped and a warning is logged
AnomalousUpdate(map, e) == e.has_executor_id /\ ~KnownExecutor(map, e)

\* MergeEntry without the lookup: operator[] creates the missing entry
MergeEntry_Insert(map, e, is_streaming_call) ==
    IF e.has_executor_id
    THEN [k \in (DOMAIN map) \cup {e.executor_id} |->
            LET old == IF k \in DOMAIN map THEN map[k]
                       ELSE [time_processed_ns |-> 0, num_produced_rows |-> 0,
                             num_iterations |-> 0, concurrency |-> 0]
            IN IF k # e.executor_id THEN old
               ELSE IF is_streaming_call THEN StreamingMerge(old, e)
               ELSE BatchMerge(old, e)]
    ELSE map

\* one iteration of the loop of addRemoteExecutionSummaries on a slot that
\* is already inited
MergeEntry(map, e, is_streaming_call) ==
    IF e.has_executor_id /\ KnownExecutor(map, e)
    THEN [map EXCEPT ![e.executor_id] =
            IF is_streaming_call THEN StreamingMerge(@, e) ELSE BatchMerge(@, e)]
    ELSE map

\* PublishNow with the store moved into the loop
PublishNow_Early(remaining) == TRUE

\* initRemoteExecutionSummaries stores true once the loop is over
PublishNow(remaining) == remaining = 0

\* NeedsInit without the load of the flag
NeedsInit_Always(inited) == TRUE

\* addRemoteExecutionSummaries inits the slot when its flag is not set
NeedsInit(inited) == ~inited

\* the loop of initRemoteExecutionSummaries over a whole response
RECURSIVE InitAll(_, _)
InitAll(map, summaries) ==
    IF summaries = <<>> THEN map
    ELSE InitAll(InitEntry(map, Head(summaries)), Tail(summaries))

\* the loop of addRemoteExecutionSummaries over a whole response
RECURSIVE MergeAll(_, _, _)
MergeAll(map, summaries, is_streaming_call) ==
    IF summaries = <<>> THEN map
    ELSE MergeAll(MergeEntry(map, Head(summaries), is_streaming_call),
                  Tail(summaries), is_streaming_call)

\* the warnings that loop logs
RECURSIVE WarningsOf(_, _)
WarningsOf(map, summaries) ==
    IF summaries = <<>> THEN 0
    ELSE (IF AnomalousUpdate(map, Head(summaries)) THEN 1 ELSE 0)
         + WarningsOf(map, Tail(summaries))

\* AddSummaries without the execution_summaries_size() == 0 return
AddSummaries_NoSizeCheck(slot, summaries, is_streaming_call) ==
    IF NeedsInit(slot.inited)
    THEN [inited |-> TRUE, map |-> InitAll(slot.map, summaries),
          stores |-> 1, warnings |-> 0]
    ELSE [inited |-> slot.inited,
          map |-> MergeAll(slot.map, summaries, is_streaming_call),
          stores |-> 0, warnings |-> WarningsOf(slot.map, summaries)]

\* addRemoteExecutionSummaries as a whole, on a slot given by its flag and
\* its map: the flag and map it leaves, the stores of true to the flag and
\* the warnings logged
AddSummaries(slot, summaries, is_streaming_call) ==
    IF Len(summaries) = 0
    THEN [inited |-> slot.inited, map |-> slot.map,
          stores |-> 0, warnings |-> 0]
    ELSE IF NeedsInit(slot.inited)
    THEN [inited |-> TRUE, map |-> InitAll(slot.map, summaries),
          stores |-> 1, warnings |-> 0]
    ELSE [inited |-> slot.inited,
          map |-> MergeAll(slot.map, summaries, is_streaming_call),
          stores |-> 0, warnings |-> WarningsOf(slot.map, summaries)]

\* addRemoteExecutionSummaries(resp, index, is_streaming_call)
AddRemoteExecutionSummaries(summaries, index, is_streaming_call) ==
    AddSummaries([inited |-> execution_summaries_inited[index],
                  map |-> execution_summaries[index]],
                 summaries, is_streaming_call)

\* ------------------------------------------------------------------------
\* The remote reader
\* ------------------------------------------------------------------------
PacketBytes == {1, 2}

\* what remote_reader->nextResult returns: failure flag and message, eof
\* flag, the response (absent, carrying an error, or carrying execution
\* summaries), call index and decode detail.  `blocks` is the number of
\* blocks the call appended to block_queue.
ResultUnit(meet_error, error_msg, eof, resp, resp_error, summaries, call_index, rows, blocks, packet_bytes) ==
    [meet_error |-> meet_error, error_msg |-> error_msg, eof |-> eof,
     resp |-> resp, resp_error |-> resp_error, summaries |-> summaries,
     call_index |-> call_index, rows |-> rows, blocks |-> blocks,
     packet_bytes |-> packet_bytes]

\* decoded rows and the blocks they came in: no block without rows
RowsAndBlocks ==
    {<<0, 0>>} \cup { d \in (1..MaxRows) \X (1..MaxRows) : d[2] <= d[1] }

\* the response of a result: absent, or present with no summary or with one
Responses ==
    {<<"null", <<>>>>} \cup { <<"ok", q>> : q \in SeqsOfLen(SummaryEntries, 0) \cup SeqsOfLen(SummaryEntries, 1) }

\* results that are neither failures nor the end of the stream
DataResults ==
    { ResultUnit(FALSE, "", FALSE, rs[1], "", rs[2], c, d[1], d[2], b) :
        rs \in Responses, c \in Sources, d \in RowsAndBlocks,
        b \in PacketBytes }

\* the summary a failed or final result carries when it has a response
StraySummary ==
    [has_executor_id |-> TRUE, executor_id |-> "opA",
     time_processed_ns |-> 0, num_produced_rows |-> 1,
     num_iterations |-> 0, concurrency |-> 0]

\* failure flag with message, eof flag and response of the results that
\* end the stream: every combination in which the failure flag is set, the
\* eof flag is set or the response carries an error
EndingFlags ==
    { f \in ((ErrorMsgs \cup {""}) \X BOOLEAN \X (RespErrors \cup {"", "null"})) :
        f[1] # "" \/ f[2] \/ f[3] \in RespErrors }

\* results flagged as a failure or as the end of the stream, and results
\* whose response carries an error.  They append no block; they carry one
\* row, one byte, the last call index and, when they have a response, one
\* summary.
EndingResults ==
    { ResultUnit(f[1] # "", f[1], f[2],
                 IF f[3] = "null" THEN "null"
                 ELSE IF f[3] = "" THEN "ok" ELSE "error",
                 IF f[3] \in RespErrors THEN f[3] ELSE "",
                 IF f[3] = "null" THEN <<>> ELSE <<StraySummary>>,
                 NumSources - 1, 1, 0, 1) :
        f \in EndingFlags }

ResultUnits == DataResults \cup EndingResults

NoResult == [meet_error |-> FALSE, error_msg |-> "", eof |-> FALSE,
             resp |-> "none", resp_error |-> "", summaries |-> <<>>,
             call_index |-> 0, rows |-> 0, blocks |-> 0, packet_bytes |-> 0]

\* the blocks the k-th call of nextResult appends to the queue
NewBlocks(k, n) == [j \in 1..n |-> <<k, j>>]

\* outcomes of readImpl
NoRet == [kind |-> "none", value |-> <<>>]
Pending == [kind |-> "pending", value |-> <<>>]
RetBlock(b) == [kind |-> "block", value |-> b]
RetEof == [kind |-> "eof", value |-> <<>>]
RetError(msg) == [kind |-> "error", value |-> msg]

NoObs == [kind |-> "none", index |-> 0, keys |-> {}]

\* ------------------------------------------------------------------------
\* Construction
\* ------------------------------------------------------------------------
Constructed ==
    /\ is_streaming_reader \in BOOLEAN
    /\ stream_id \in 0..1
    /\ block_queue = <<>>
    /\ connection_profile_infos = [i \in Sources |-> [packets |-> 0, bytes |-> 0]]
    /\ total_rows = 0
    /\ execution_summaries_inited = [i \in Sources |-> FALSE]
    /\ execution_summaries = [i \in Sources |-> EmptyMap]
    /\ pc = "idle"
    /\ result = NoResult
    /\ todo = 0
    /\ ret = NoRet
    /\ fetches = 0
    /\ last_stream_id = -1
    /\ not_found_warnings = 0
    /\ inited_stores = [i \in Sources |-> 0]
    /\ obs = NoObs
    /\ rows_received = 0
    /\ arrived = <<>>
    /\ cancel_calls = 0
    /\ closed = FALSE
    /\ kills = <<>>
    /\ received = <<>>
    /\ delivered = <<>>

\* the reader is left free: it may return results without rows for ever
Forever == -1

Init == Constructed /\ zero_row_budget = Forever

config == <<is_streaming_reader, stream_id>>
profile == <<connection_profile_infos, total_rows>>
table == <<execution_summaries_inited, execution_summaries, inited_stores,
           not_found_warnings>>
reader == <<fetches, last_stream_id, cancel_calls, closed, arrived,
           rows_received, kills, received>>

\* ------------------------------------------------------------------------
\* readImpl / fetchRemoteResult
\* ------------------------------------------------------------------------
\* SummaryIndex of a batch reader whatever the reader is
SummaryIndex_Zero(r) == 0

\* SummaryIndex of a streaming reader whatever the reader is
SummaryIndex_CallIndex(r) == r.call_index

\* slot addRemoteExecutionSummaries is called with
SummaryIndex(r) == IF is_streaming_reader THEN r.call_index ELSE 0

\* ProfileIndex of a streaming reader whatever the reader is
ProfileIndex_CallIndex(r) == r.call_index

\* index of the connection_profile_infos entry that is updated
ProfileIndex(r) == IF is_streaming_reader THEN r.call_index ELSE 0

\* ++packets, bytes += decode_detail.packet_bytes
ProfileUpdate(infos, r) ==
    [infos EXCEPT ![ProfileIndex(r)] =
        [packets |-> @.packets + 1, bytes |-> @.bytes + r.packet_bytes]]

\* RowsUpdate counting the blocks instead of the rows
RowsUpdate_Blocks(rows, r) == rows + r.blocks

\* total_rows += decode_detail.rows
RowsUpdate(rows, r) == rows + r.rows

\* readImpl returning the front block without block_queue.pop()
ReadImpl_NoPop ==
    /\ pc = "idle"
    /\ ~closed
    /\ IF block_queue = <<>>
       THEN /\ pc' = "fetch"
            /\ ret' = Pending
            /\ UNCHANGED <<block_queue, delivered>>
       ELSE /\ ret' = RetBlock(Head(block_queue))
            /\ delivered' = Append(delivered, Head(block_queue))
            /\ UNCHANGED <<block_queue, pc>>
    /\ result' = NoResult
    /\ UNCHANGED <<config, zero_row_budget, profile, table, todo, reader, obs>>

\* readImpl: a queued block is returned at once, otherwise
\* fetchRemoteResult is entered
ReadImpl ==
    /\ pc = "idle"
    /\ ~closed
    /\ IF block_queue = <<>>
       THEN /\ pc' = "fetch"
            /\ ret' = Pending
            /\ UNCHANGED <<block_queue, delivered>>
       ELSE /\ ret' = RetBlock(Head(block_queue))
            /\ block_queue' = Tail(block_queue)
            /\ delivered' = Append(delivered, Head(block_queue))
            /\ UNCHANGED pc
    /\ result' = NoResult
    /\ UNCHANGED <<config, zero_row_budget, profile, table, todo, reader, obs>>

\* ResultFate with the eof check ahead of the meet_error check
ResultFate_EofFirst(r) ==
    IF r.eof THEN "eof"
    ELSE IF r.meet_error THEN "throw_error_msg"
    ELSE IF r.resp # "null" /\ r.resp = "error" THEN "throw_resp_error"
    ELSE "ok"

\* ResultFate with the has_error check ahead of the eof check
ResultFate_RespErrorFirst(r) ==
    IF r.meet_error THEN "throw_error_msg"
    ELSE IF r.resp # "null" /\ r.resp = "error" THEN "throw_resp_error"
    ELSE IF r.eof THEN "eof"
    ELSE "ok"

\* which of the checks at the head of fetchRemoteResult ends the call
ResultFate(r) ==
    IF r.meet_error THEN "throw_error_msg"
    ELSE IF r.eof THEN "eof"
    ELSE IF r.resp # "null" /\ r.resp = "error" THEN "throw_resp_error"
    ELSE "ok"

\* a result that is no failure, not the end of the stream and carries no
\* error in its response
IsData(r) == ~r.meet_error /\ ~r.eof /\ r.resp # "error"

\* nextResult called with partition 0 whatever stream_id is
NextResult_PartitionZero(r) ==
    /\ fetches' = fetches + 1
    /\ last_stream_id' = 0
    /\ rows_received' = IF IsData(r) THEN rows_received + r.rows
                        ELSE rows_received
    /\ result' = r
    /\ received' = Append(received, r)

\* remote_reader->nextResult(block_queue, sample_block, stream_id)
NextResult(r) ==
    /\ fetches' = fetches + 1
    /\ last_stream_id' = stream_id
    /\ rows_received' = IF IsData(r) THEN rows_received + r.rows
                        ELSE rows_received
    /\ result' = r
    /\ received' = Append(received, r)

\* FetchEnds with the counters updated ahead of the has_error check
FetchEnds_CountsFirst(r) ==
    /\ ResultFate(r) # "ok"
    /\ pc' = "finished"
    /\ ret' = CASE ResultFate(r) = "throw_error_msg" -> RetError(r.error_msg)
                 [] ResultFate(r) = "eof" -> RetEof
                 [] OTHER -> RetError(r.resp_error)
    /\ block_queue' = block_queue \o NewBlocks(fetches + 1, r.blocks)
    /\ IF ResultFate(r) = "throw_resp_error"
       THEN /\ connection_profile_infos' =
                  ProfileUpdate(connection_profile_infos, r)
            /\ total_rows' = RowsUpdate(total_rows, r)
       ELSE UNCHANGED profile
    /\ UNCHANGED <<table, todo, delivered>>

\* the checks at the head of fetchRemoteResult end the call
FetchEnds(r) ==
    /\ ResultFate(r) # "ok"
    /\ pc' = "finished"
    /\ ret' = CASE ResultFate(r) = "throw_error_msg" -> RetError(r.error_msg)
                 [] ResultFate(r) = "eof" -> RetEof
                 [] OTHER -> RetError(r.resp_error)
    /\ block_queue' = block_queue \o NewBlocks(fetches + 1, r.blocks)
    /\ UNCHANGED <<profile, table, todo, delivered>>

\* FetchReturns with `return false` in place of the recursive call
FetchReturns_EofOnEmpty(r, queue) ==
    IF r.rows = 0
    THEN /\ pc' = "finished"
         /\ ret' = RetEof
         /\ block_queue' = queue
         /\ UNCHANGED delivered
    ELSE /\ pc' = "idle"
         /\ ret' = RetBlock(Head(queue))
         /\ block_queue' = Tail(queue)
         /\ delivered' = Append(delivered, Head(queue))

\* after the counters: the recursive call when no row was decoded, else
\* the return to readImpl, which pops the front block
FetchReturns(r, queue) ==
    IF r.rows = 0
    THEN /\ pc' = "fetch"
         /\ block_queue' = queue
         /\ UNCHANGED <<ret, delivered>>
    ELSE /\ pc' = "idle"
         /\ ret' = RetBlock(Head(queue))
         /\ block_queue' = Tail(queue)
         /\ delivered' = Append(delivered, Head(queue))

\* one call of fetchRemoteResult, up to its return or its recursive call,
\* on the results a reader can return and up to a number of calls
FetchRemoteResultOn(results, bound) ==
    /\ pc = "fetch"
    /\ fetches < bound
    /\ \E r \in results :
        /\ NextResult(r)
        /\ \/ FetchEnds(r)
           \/ /\ ResultFate(r) = "ok"
              /\ LET index == SummaryIndex(r)
                     added == AddRemoteExecutionSummaries(
                                  r.summaries, index, is_streaming_reader)
                 IN IF r.resp # "null"
                    THEN /\ execution_summaries' =
                               [execution_summaries EXCEPT ![index] = added.map]
                         /\ execution_summaries_inited' =
                               [execution_summaries_inited EXCEPT
                                  ![index] = added.inited]
                         /\ inited_stores' =
                               [inited_stores EXCEPT ![index] = @ + added.stores]
                         /\ not_found_warnings' =
                               not_found_warnings + added.warnings
                    ELSE UNCHANGED table
              /\ connection_profile_infos' =
                    ProfileUpdate(connection_profile_infos, r)
              /\ total_rows' = RowsUpdate(total_rows, r)
              /\ FetchReturns(r, block_queue \o NewBlocks(fetches + 1, r.blocks))
              /\ UNCHANGED todo
    /\ UNCHANGED <<config, zero_row_budget, cancel_calls, closed, obs, arrived, kills>>

FetchRemoteResult == FetchRemoteResultOn(ResultUnits, MaxFetches)

\* ------------------------------------------------------------------------
\* Other operations
\* ------------------------------------------------------------------------
\* getRemoteExecutionSummaries(index), called from another thread: the
\* address of the slot's map when the flag is loaded as true, else nullptr
GetRemoteExecutionSummaries ==
    /\ \E index \in Sources :
         obs' = IF execution_summaries_inited[index]
                THEN [kind |-> "map", index |-> index,
                      keys |-> DOMAIN execution_summaries[index]]
                ELSE [kind |-> "nullptr", index |-> index, keys |-> {}]
    /\ UNCHANGED <<config, zero_row_budget, profile, table, todo, reader, block_queue, result,
                   ret, pc, delivered>>

\* cancel without the test of kill
Cancel_Always ==
    /\ Len(kills) < MaxCancels
    /\ \E kill \in BOOLEAN :
         /\ kills' = Append(kills, kill)
         /\ cancel_calls' = cancel_calls + 1
    /\ UNCHANGED <<config, zero_row_budget, profile, table, todo, fetches, last_stream_id,
                   closed, block_queue, result, ret, pc, obs, arrived,
                   rows_received, received, delivered>>

\* cancel(kill)
Cancel ==
    /\ Len(kills) < MaxCancels
    /\ \E kill \in BOOLEAN :
         /\ kills' = Append(kills, kill)
         /\ cancel_calls' = IF kill THEN cancel_calls + 1 ELSE cancel_calls
    /\ UNCHANGED <<config, zero_row_budget, profile, table, todo, fetches, last_stream_id,
                   closed, block_queue, result, ret, pc, obs, arrived,
                   rows_received, received, delivered>>

\* readSuffixImpl
ReadSuffixImpl ==
    /\ pc \in {"idle", "finished"}
    /\ ~closed
    /\ closed' = TRUE
    /\ UNCHANGED <<config, zero_row_budget, profile, table, todo, fetches, last_stream_id,
                   cancel_calls, block_queue, result, ret, pc, obs, arrived,
                   rows_received, kills, received, delivered>>

\* ------------------------------------------------------------------------
\* The reading thread one summary at a time, with an observer
\* ------------------------------------------------------------------------
\* the results of the runs that follow the summary loops: a block of one
\* row in one packet of one byte, with or without a response
LoopResults ==
    { ResultUnit(FALSE, "", FALSE, resp, "", <<>>, c, 1, 1, 1) :
        resp \in {"null", "ok"}, c \in Sources }

\* fetchRemoteResult down to the summary loops; the response has n
\* summaries, drawn as the loops reach them
StepNextResult ==
    /\ pc = "fetch"
    /\ fetches < MaxFetches
    /\ \E r \in LoopResults, n \in 0..MaxSummaries :
        /\ NextResult(r)
        /\ ResultFate(r) = "ok"
        /\ block_queue' = block_queue \o NewBlocks(fetches + 1, r.blocks)
        /\ IF r.resp # "null" /\ n > 0
           THEN /\ pc' = IF NeedsInit(execution_summaries_inited[SummaryIndex(r)])
                         THEN "init" ELSE "add"
                /\ todo' = n
           ELSE /\ pc' = "profile"
                /\ todo' = 0
    /\ UNCHANGED <<config, zero_row_budget, profile, table, cancel_calls, closed, ret, obs,
                   arrived, kills, delivered>>

\* one iteration of the loop of initRemoteExecutionSummaries, and the store
\* to the flag that follows the last one
StepInitSummary ==
    /\ pc = "init"
    /\ LET index == SummaryIndex(result) IN
       \E e \in SummaryEntries :
        /\ execution_summaries' =
              [execution_summaries EXCEPT ![index] = InitEntry(@, e)]
        /\ IF PublishNow(todo - 1)
           THEN /\ execution_summaries_inited' =
                     [execution_summaries_inited EXCEPT ![index] = TRUE]
                /\ inited_stores' = [inited_stores EXCEPT ![index] = @ + 1]
           ELSE UNCHANGED <<execution_summaries_inited, inited_stores>>
    /\ todo' = todo - 1
    /\ pc' = IF todo = 1 THEN "profile" ELSE "init"
    /\ UNCHANGED <<config, zero_row_budget, profile, reader, block_queue, result, ret, obs,
                   not_found_warnings, delivered>>

\* one iteration of the loop of addRemoteExecutionSummaries
StepAddSummary ==
    /\ pc = "add"
    /\ LET index == SummaryIndex(result) IN
       \E e \in SummaryEntries :
        /\ execution_summaries' =
              [execution_summaries EXCEPT
                 ![index] = MergeEntry(@, e, is_streaming_reader)]
        /\ not_found_warnings' =
              IF AnomalousUpdate(execution_summaries[index], e)
              THEN not_found_warnings + 1
              ELSE not_found_warnings
    /\ todo' = todo - 1
    /\ pc' = IF todo = 1 THEN "profile" ELSE "add"
    /\ UNCHANGED <<config, zero_row_budget, profile, reader, block_queue, result, ret, obs,
                   execution_summaries_inited, inited_stores, delivered>>

\* the rest of fetchRemoteResult: the counters and the return
StepProfile ==
    /\ pc = "profile"
    /\ connection_profile_infos' = ProfileUpdate(connection_profile_infos, result)
    /\ total_rows' = RowsUpdate(total_rows, result)
    /\ FetchReturns(result, block_queue)
    /\ UNCHANGED <<config, zero_row_budget, table, todo, reader, result, obs>>

Next ==
    \/ ReadImpl
    \/ FetchRemoteResult
    \/ Cancel
    \/ ReadSuffixImpl

Spec == Init /\ [][Next]_vars

NextLoop ==
    \/ ReadImpl
    \/ StepNextResult
    \/ StepInitSummary
    \/ StepAddSummary
    \/ StepProfile
    \/ GetRemoteExecutionSummaries
    \/ Cancel
    \/ ReadSuffixImpl

SpecLoop == Init /\ [][NextLoop]_vars

\* ------------------------------------------------------------------------
\* addRemoteExecutionSummaries on its own: responses merged into slot 0
\* ------------------------------------------------------------------------
MaxReports == 3

\* the summaries of these responses all carry an executor id and at least
\* one counter that is not zero
ReportEntries ==
    { e \in SummaryEntries :
        /\ e.has_executor_id
        /\ e.time_processed_ns + e.num_produced_rows
             + e.num_iterations + e.concurrency > 0 }

Reports == UNION { SeqsOfLen(ReportEntries, n) : n \in 0..MaxSummaries }

MergeReport ==
    /\ Len(arrived) < MaxReports
    /\ \E summaries \in Reports :
        LET added == AddRemoteExecutionSummaries(summaries, 0, is_streaming_reader)
        IN /\ execution_summaries' = [execution_summaries EXCEPT ![0] = added.map]
           /\ execution_summaries_inited' =
                 [execution_summaries_inited EXCEPT ![0] = added.inited]
           /\ inited_stores' = [inited_stores EXCEPT ![0] = @ + added.stores]
           /\ not_found_warnings' = not_found_warnings + added.warnings
           /\ arrived' = Append(arrived, summaries)
    /\ UNCHANGED <<config, zero_row_budget, profile, todo, fetches, last_stream_id, cancel_calls,
                   closed, block_queue, result, ret, pc, obs, rows_received,
                   kills, received, delivered>>

InitMerge == Init /\ stream_id = 0

SpecMerge == InitMerge /\ [][MergeReport]_vars

\* ------------------------------------------------------------------------
\* Responses with up to MaxSummaries summaries, fetched from every connection
\* ------------------------------------------------------------------------
MaxSummaryFetches == 3

\* the summaries of these responses: without executor id, or with an id and
\* either rows or time
FetchedEntries ==
    { e \in SummaryEntries :
        /\ e.num_iterations = 0 /\ e.concurrency = 0
        /\ e.has_executor_id =>
              e.time_processed_ns + e.num_produced_rows > 0 }

\* results with one row in one block, with or without a response
SummaryResults ==
    { ResultUnit(FALSE, "", FALSE, "null", "", <<>>, c, 1, 1, 1) :
        c \in Sources }
    \cup
    { ResultUnit(FALSE, "", FALSE, "ok", "", q, c, 1, 1, 1) :
        q \in UNION { SeqsOfLen(FetchedEntries, n) : n \in 0..MaxSummaries },
        c \in Sources }

FetchSummaries == FetchRemoteResultOn(SummaryResults, MaxSummaryFetches)

NextFetch ==
    \/ ReadImpl
    \/ FetchSummaries

SpecFetch == InitMerge /\ [][NextFetch]_vars

\* ------------------------------------------------------------------------
\* readImpl against a reader that may return results without rows for ever
\* ------------------------------------------------------------------------
MaxZeroRows == 2

\* the counters are kept modulo CounterModulus, as uint64_t and size_t are
\* kept modulo 2^64
CounterModulus == 3

\* a result without rows, a result with one row in one block, the end of
\* the stream, a failure and a response with an error
LiveResults ==
    { ResultUnit(FALSE, "", FALSE, "null", "", <<>>, c, n, n, 1) :
        c \in Sources, n \in 0..1 }
    \cup
    { ResultUnit(FALSE, "", TRUE, "null", "", <<>>, 0, 0, 0, 1),
      ResultUnit(TRUE, "net1", FALSE, "null", "", <<>>, 0, 0, 0, 1),
      ResultUnit(FALSE, "", FALSE, "error", "remote1", <<>>, 0, 0, 0, 1) }

\* ++packets, bytes += decode_detail.packet_bytes, in the counters' width
WrapProfile(infos, r) ==
    [infos EXCEPT ![ProfileIndex(r)] =
        [packets |-> (@.packets + 1) % CounterModulus,
         bytes |-> (@.bytes + r.packet_bytes) % CounterModulus]]

\* fetchRemoteResult returning false on a result without rows
LiveFetch_EofOnEmpty ==
    /\ pc = "fetch"
    /\ \E r \in LiveResults :
        /\ (IsData(r) /\ r.rows = 0) => zero_row_budget # 0
        /\ zero_row_budget = Forever => (IsData(r) /\ r.rows = 0)
        /\ result' = r
        /\ last_stream_id' = stream_id
        /\ IF ResultFate(r) # "ok"
           THEN /\ pc' = "finished"
                /\ ret' = CASE ResultFate(r) = "throw_error_msg" ->
                                  RetError(r.error_msg)
                             [] ResultFate(r) = "eof" -> RetEof
                             [] OTHER -> RetError(r.resp_error)
                /\ UNCHANGED <<profile, zero_row_budget>>
           ELSE /\ connection_profile_infos' =
                     WrapProfile(connection_profile_infos, r)
                /\ total_rows' = (total_rows + r.rows) % CounterModulus
                /\ IF r.rows = 0
                   THEN /\ pc' = "finished"
                        /\ ret' = RetEof
                        /\ UNCHANGED zero_row_budget
                   ELSE /\ pc' = "idle"
                        /\ ret' = RetBlock(<<0, 1>>)
                        /\ zero_row_budget' \in 0..MaxZeroRows
    /\ UNCHANGED <<is_streaming_reader, stream_id, table, todo, block_queue,
                   fetches, received, rows_received, delivered, arrived,
                   kills, cancel_calls, closed, obs>>

\* one call of fetchRemoteResult, up to its return or its recursive call.
\* The reader returns a result without rows only while its budget lasts;
\* the block of a result with rows is appended by nextResult and popped by
\* readImpl within the step.
LiveFetch ==
    /\ pc = "fetch"
    /\ \E r \in LiveResults :
        /\ (IsData(r) /\ r.rows = 0) => zero_row_budget # 0
        /\ zero_row_budget = Forever => (IsData(r) /\ r.rows = 0)
        /\ result' = r
        /\ last_stream_id' = stream_id
        /\ IF ResultFate(r) # "ok"
           THEN /\ pc' = "finished"
                /\ ret' = CASE ResultFate(r) = "throw_error_msg" ->
                                  RetError(r.error_msg)
                             [] ResultFate(r) = "eof" -> RetEof
                             [] OTHER -> RetError(r.resp_error)
                /\ UNCHANGED <<profile, zero_row_budget>>
           ELSE /\ connection_profile_infos' =
                     WrapProfile(connection_profile_infos, r)
                /\ total_rows' = (total_rows + r.rows) % CounterModulus
                /\ IF r.rows = 0
                   THEN /\ pc' = "fetch"
                        /\ zero_row_budget' =
                              IF zero_row_budget = Forever THEN Forever
                              ELSE zero_row_budget - 1
                        /\ UNCHANGED ret
                   ELSE /\ pc' = "idle"
                        /\ ret' = RetBlock(<<0, 1>>)
                        /\ zero_row_budget' \in 0..MaxZeroRows
    /\ UNCHANGED <<is_streaming_reader, stream_id, table, todo, block_queue,
                   fetches, received, rows_received, delivered, arrived,
                   kills, cancel_calls, closed, obs>>

InitLive ==
    /\ Constructed
    /\ zero_row_budget \in {Forever} \cup 0..MaxZeroRows

NextLive ==
    \/ ReadImpl
    \/ LiveFetch

\* the thread inside fetchRemoteResult keeps running
SpecLive == InitLive /\ [][NextLive]_vars /\ WF_vars(LiveFetch)

\* ------------------------------------------------------------------------
\* Properties
\* ------------------------------------------------------------------------
\* C1: every flag execution_summaries_inited[i] starts false, true is
\* stored to it at most once, and no step of any operation (readImpl and
\* its fetch, cancel, readSuffixImpl, getRemoteExecutionSummaries) takes it
\* from true back to false.
C1_FlagSetOnce ==
    /\ \A i \in Sources : ~execution_summaries_inited[i]
    /\ [][\A i \in Sources :
            /\ execution_summaries_inited[i] => execution_summaries_inited'[i]
            /\ execution_summaries_inited[i] => inited_stores'[i] = inited_stores[i]
            /\ inited_stores'[i] <= 1]_vars

\* a response with summaries is being merged into a slot whose flag is set
C1_Witness ==
    /\ pc = "add"
    /\ execution_summaries_inited[SummaryIndex(result)]
    /\ cancel_calls > 0
    /\ obs.kind = "map"

\* C2: once the flag of slot i is set, the executor ids of
\* execution_summaries[i] are the same after every step, whatever summary
\* is merged; a step changes nothing of the slot but the four counters of
\* its entries.
C2_KeysFrozen ==
    [][\A i \in Sources :
         execution_summaries_inited[i] =>
            DOMAIN execution_summaries'[i] = DOMAIN execution_summaries[i]]_vars

\* a summary with an id the slot does not have was merged after a summary
\* that changed a counter of the slot
C2_Witness ==
    /\ not_found_warnings > 0
    /\ pc = "profile"
    /\ \E i \in Sources :
         /\ execution_summaries_inited[i]
         /\ \E k \in DOMAIN execution_summaries[i] :
              execution_summaries[i][k].time_processed_ns
                + execution_summaries[i][k].num_produced_rows > 1

\* C3: while the reading thread fills a slot entry by entry, the observer
\* gets a map from getRemoteExecutionSummaries(i) exactly when the flag of
\* slot i is set at the load, and the map it got is never one whose init
\* loop is still running: its executor ids are, in every later state,
\* those it had at the load.
C3_ObserverSeesWholeMap ==
    /\ [](obs.kind = "map" =>
            /\ execution_summaries_inited[obs.index]
            /\ ~(pc = "init" /\ SummaryIndex(result) = obs.index)
            /\ DOMAIN execution_summaries[obs.index] = obs.keys)
    /\ [][obs' # obs =>
            (obs'.kind = "map") = execution_summaries_inited[obs'.index]]_vars

\* the observer holds the two-entry map of a slot the thread is merging a
\* later response into
C3_Witness ==
    /\ obs.kind = "map"
    /\ Cardinality(obs.keys) = 2
    /\ pc = "add"
    /\ SummaryIndex(result) = obs.index

\* the executor ids a report names
Keys(report) ==
    { report[j].executor_id :
        j \in { j \in 1..Len(report) : report[j].has_executor_id } }

\* no executor id is named twice in the report
NoDup(report) ==
    \A a, b \in 1..Len(report) :
        (a # b /\ report[a].has_executor_id /\ report[b].has_executor_id)
            => report[a].executor_id # report[b].executor_id

\* the reports with summaries all name the same executor ids, once each
Uniform(reports) ==
    \A a \in 1..Len(reports) :
        Len(reports[a]) > 0 =>
            /\ NoDup(reports[a])
            /\ \A b \in 1..Len(reports) :
                 Len(reports[b]) > 0 => Keys(reports[a]) = Keys(reports[b])

\* the arrival orders of n reports
Orders(n) ==
    { p \in [1..n -> 1..n] : \A a, b \in 1..n : a # b => p[a] # p[b] }

Reorder(reports, p) == [j \in 1..Len(reports) |-> reports[p[j]]]

\* the map of a fresh slot after the reports were merged in the order given
RECURSIVE MergeInOrder(_, _, _)
MergeInOrder(slot, reports, is_streaming_call) ==
    IF reports = <<>> THEN slot.map
    ELSE LET r == AddSummaries(slot, Head(reports), is_streaming_call)
         IN MergeInOrder([inited |-> r.inited, map |-> r.map],
                         Tail(reports), is_streaming_call)

FreshSlot == [inited |-> FALSE, map |-> EmptyMap]

RECURSIVE Flatten(_)
Flatten(reports) ==
    IF reports = <<>> THEN <<>> ELSE Head(reports) \o Flatten(Tail(reports))

RECURSIVE SumOver(_, _, _)
SumOver(entries, k, field) ==
    IF entries = <<>> THEN 0
    ELSE (IF Head(entries).has_executor_id /\ Head(entries).executor_id = k
          THEN Head(entries)[field] ELSE 0)
         + SumOver(Tail(entries), k, field)

RECURSIVE MaxOver(_, _, _)
MaxOver(entries, k, field) ==
    IF entries = <<>> THEN 0
    ELSE Max(IF Head(entries).has_executor_id /\ Head(entries).executor_id = k
             THEN Head(entries)[field] ELSE 0,
             MaxOver(Tail(entries), k, field))

\* per executor id named in any report: the sum of rows, iterations and
\* concurrency and the maximum of the time over all reports
SumMaxOfReports(reports) ==
    LET all == Flatten(reports)
    IN [k \in Keys(all) |->
          [time_processed_ns |-> MaxOver(all, k, "time_processed_ns"),
           num_produced_rows |-> SumOver(all, k, "num_produced_rows"),
           num_iterations |-> SumOver(all, k, "num_iterations"),
           concurrency |-> SumOver(all, k, "concurrency")]]

\* C4 as stated: in batch mode every arrival order of the reports leaves
\* in slot 0 the same aggregate, the sum of rows, iterations and
\* concurrency and the maximum of the time over all the reports (each
\* report naming an executor once).
C4_AnyReportsAnyOrder ==
    (~is_streaming_reader /\ \A a \in 1..Len(arrived) : NoDup(arrived[a])) =>
        /\ execution_summaries[0] = SumMaxOfReports(arrived)
        /\ \A p \in Orders(Len(arrived)) :
             MergeInOrder(FreshSlot, Reorder(arrived, p), FALSE)
                = SumMaxOfReports(arrived)

\* C4: in batch mode, when the reports that carry summaries all name the
\* same executor ids and each names an id once, every arrival order of the
\* reports leaves in slot 0 the same aggregate: per id the sum of rows,
\* iterations and concurrency and the maximum of the time over all reports.
C4_BatchOrderIndependent ==
    (~is_streaming_reader /\ Uniform(arrived)) =>
        /\ execution_summaries[0] = SumMaxOfReports(arrived)
        /\ \A p \in Orders(Len(arrived)) :
             MergeInOrder(FreshSlot, Reorder(arrived, p), FALSE)
                = SumMaxOfReports(arrived)

\* three different reports on the same two executors were merged in batch
\* mode
C4_Witness ==
    /\ ~is_streaming_reader
    /\ Len(arrived) = MaxReports
    /\ Uniform(arrived)
    /\ \A a \in 1..Len(arrived) : Keys(arrived[a]) = ExecutorIds
    /\ arrived[1] # arrived[2] /\ arrived[2] # arrived[3]
    /\ \E k \in ExecutorIds : execution_summaries[0][k].num_produced_rows >= 2

\* every entry of `late` names an executor of `snapshot` and has no field
\* above that executor's in `snapshot`
Dominated(late, snapshot) ==
    \A a \in 1..Len(late) :
        late[a].has_executor_id =>
            \E b \in 1..Len(snapshot) :
                /\ snapshot[b].has_executor_id
                /\ snapshot[b].executor_id = late[a].executor_id
                /\ late[a].time_processed_ns <= snapshot[b].time_processed_ns
                /\ late[a].num_produced_rows <= snapshot[b].num_produced_rows
                /\ late[a].num_iterations <= snapshot[b].num_iterations
                /\ late[a].concurrency <= snapshot[b].concurrency

\* the slot was published before the j-th report was merged
PublishedBefore(j) == \E a \in 1..(j - 1) : Len(arrived[a]) > 0

\* C5: in streaming mode, after a snapshot S was merged into a slot that
\* was already published, merging S again, or a snapshot of which every
\* field is at most that of S, leaves every entry of the slot as it was.
C5_StreamingIdempotent ==
    [][(/\ is_streaming_reader
        /\ Len(arrived') = Len(arrived) + 1
        /\ \E j \in 2..Len(arrived) :
             /\ PublishedBefore(j)
             /\ Dominated(arrived'[Len(arrived')], arrived[j]))
       => execution_summaries' = execution_summaries]_vars

\* after the publishing report and a snapshot, an earlier snapshot that is
\* not the same was merged in streaming mode
C5_Witness ==
    /\ is_streaming_reader
    /\ Len(arrived) = 3
    /\ Len(arrived[1]) > 0
    /\ Len(arrived[3]) > 0
    /\ arrived[3] # arrived[2]
    /\ Dominated(arrived[3], arrived[2])
    /\ execution_summaries[0] # InitAll(EmptyMap, arrived[1])

\* the step is a call of nextResult
Fetched == fetches' = fetches + 1

\* C6: when a response is merged whose summary names an executor id that
\* the already published slot does not have, the slot's map is the same
\* before and after, one warning is logged for the entry, and the blocks
\* of the result are delivered as for any other result: the counters are
\* updated and readImpl returns the first block (or fetches again when the
\* result has no rows).
C6_UnknownIdIsNoOp ==
    [][(/\ Fetched
        /\ ~result'.meet_error /\ ~result'.eof /\ result'.resp = "ok"
        /\ Len(result'.summaries) = 1
        /\ result'.summaries[1].has_executor_id
        /\ execution_summaries_inited[SummaryIndex(result')]
        /\ result'.summaries[1].executor_id
              \notin DOMAIN execution_summaries[SummaryIndex(result')])
       => /\ execution_summaries' = execution_summaries
          /\ execution_summaries_inited' = execution_summaries_inited
          /\ not_found_warnings' = not_found_warnings + 1
          /\ total_rows' = total_rows + result'.rows
          /\ result'.rows > 0 =>
                /\ pc' = "idle"
                /\ ret' = RetBlock(<<fetches', 1>>)
                /\ Len(block_queue') = result'.blocks - 1
          /\ result'.rows = 0 => pc' = "fetch" /\ ret' = Pending]_vars

\* readImpl has just returned the block of a result whose summary named an
\* executor id missing from its published slot
C6_Witness ==
    /\ pc = "idle"
    /\ ret = RetBlock(<<fetches, 1>>)
    /\ result.resp = "ok"
    /\ Len(result.summaries) = 1
    /\ result.summaries[1].has_executor_id
    /\ execution_summaries_inited[SummaryIndex(result)]
    /\ result.summaries[1].executor_id
          \notin DOMAIN execution_summaries[SummaryIndex(result)]
    /\ DOMAIN execution_summaries[SummaryIndex(result)] # {}
    /\ not_found_warnings = 1

\* C7: when nextResult returns a result with the failure flag set,
\* readImpl fails with an error whose message is the result's error_msg,
\* and block_queue, execution_summaries, execution_summaries_inited,
\* connection_profile_infos and total_rows are left as they were.
C7_TransportFailure ==
    [][(Fetched /\ result'.meet_error)
       => /\ ret' = RetError(result'.error_msg)
          /\ pc' = "finished"
          /\ UNCHANGED <<block_queue, execution_summaries,
                         execution_summaries_inited,
                         connection_profile_infos, total_rows>>]_vars

\* after a result with rows, readImpl failed on a result that has the
\* failure flag, the eof flag and a response with an error all at once
C7_Witness ==
    /\ pc = "finished"
    /\ result.meet_error /\ result.eof /\ result.resp = "error"
    /\ ret = RetError(result.error_msg)
    /\ total_rows > 0
    /\ \E i \in Sources : execution_summaries_inited[i]

\* C8: when a result that is neither a failure nor the end of the stream
\* has a response with an error, readImpl fails with that error's message,
\* no summary of the response is merged, no counter is updated, no block
\* is delivered, and nextResult is not called again by that readImpl.
C8_LogicalError ==
    [][/\ (Fetched /\ ~result'.meet_error /\ ~result'.eof
              /\ result'.resp = "error")
          => /\ ret' = RetError(result'.resp_error)
             /\ pc' = "finished"
             /\ UNCHANGED <<block_queue, execution_summaries,
                            execution_summaries_inited, not_found_warnings,
                            connection_profile_infos, total_rows>>
       /\ ret.kind = "error" => ~Fetched /\ ret' = ret]_vars

\* readImpl failed on the error of a response that carries a summary for
\* an executor of a published slot
C8_Witness ==
    /\ pc = "finished"
    /\ ~result.meet_error /\ ~result.eof /\ result.resp = "error"
    /\ ret = RetError(result.resp_error)
    /\ Len(result.summaries) > 0
    /\ execution_summaries_inited[SummaryIndex(result)]
    /\ result.summaries[1].executor_id
          \in DOMAIN execution_summaries[SummaryIndex(result)]

\* C9: a result without rows does not make readImpl return: no block is
\* delivered for it and the end of the stream is not reported; readImpl
\* calls nextResult again, and it returns only on a result that has rows,
\* is the end of the stream or is a failure.
C9_EmptyResultRefetches ==
    [][/\ (Fetched /\ ~result'.meet_error /\ ~result'.eof
              /\ result'.resp # "error" /\ result'.rows = 0)
          => pc' = "fetch" /\ ret' = Pending /\ block_queue' = block_queue
       /\ (pc = "fetch" /\ pc' # "fetch")
          => \/ result'.meet_error
             \/ result'.eof
             \/ result'.resp = "error"
             \/ result'.rows > 0]_vars

\* one readImpl got a result without rows and then returned a block of
\* the second result
C9_Witness ==
    /\ fetches = 2
    /\ ret.kind = "block"
    /\ ret.value[1] = 2
    /\ total_rows = result.rows
    /\ \E i \in Sources : connection_profile_infos[i].packets = 2

\* C10: in every state total_rows is the sum of decode_detail.rows of the
\* results received so far that were neither failures, nor the end of the
\* stream, nor responses with an error.
C10_TotalRows == total_rows = rows_received

\* a result with rows was counted, and the rows of the final result that
\* followed it were not
C10_Witness ==
    /\ pc = "finished"
    /\ result.eof
    /\ result.rows > 0
    /\ total_rows = MaxRows
    /\ fetches = 2

\* the calls of cancel that were made with kill set
RECURSIVE KillCount(_)
KillCount(args) ==
    IF args = <<>> THEN 0
    ELSE (IF Head(args) THEN 1 ELSE 0) + KillCount(Tail(args))

\* C11: a call cancel(false) does not call remote_reader->cancel() and
\* changes nothing of the stream; a call cancel(true) calls it once; no
\* step of readImpl, readSuffixImpl or getRemoteExecutionSummaries calls it.
C11_CancelOnlyOnKill ==
    /\ [](cancel_calls = KillCount(kills))
    /\ [][/\ kills' # kills =>
               /\ kills'[Len(kills')] => cancel_calls' = cancel_calls + 1
               /\ ~kills'[Len(kills')] =>
                    /\ cancel_calls' = cancel_calls
                    /\ UNCHANGED <<config, zero_row_budget, profile, table, block_queue, pc,
                                   result, ret, todo, fetches, closed>>
          /\ kills' = kills => cancel_calls' = cancel_calls]_vars

\* cancel(false) was called while the stream was inside fetchRemoteResult,
\* and the stream was then read to its bound, observed and closed without
\* a call of remote_reader->cancel()
C11_Witness ==
    /\ kills = <<FALSE>>
    /\ cancel_calls = 0
    /\ fetches = MaxFetches
    /\ obs.kind = "map"
    /\ closed

\* a result whose response is merged and has summaries
IsPayload(r) ==
    ~r.meet_error /\ ~r.eof /\ r.resp = "ok" /\ Len(r.summaries) > 0

\* the summary lists of the payloads received so far from connection i
PayloadsFrom(i) ==
    LET From(r) == IsPayload(r) /\ r.call_index = i
        got == SelectSeq(received, From)
    IN [j \in 1..Len(got) |-> got[j].summaries]

\* the fields of executor k in the map are the maxima over the payloads
MaxOfPayloads(map, payloads, k) ==
    /\ k \in DOMAIN map
    /\ \A field \in {"time_processed_ns", "num_produced_rows",
                      "num_iterations", "concurrency"} :
         map[k][field] = MaxOver(Flatten(payloads), k, field)

\* payloads of connection j leave the slots of the other connections alone
SlotsIsolated ==
    (is_streaming_reader /\ Fetched) =>
        \A i \in Sources \ {result'.call_index} :
            /\ execution_summaries'[i] = execution_summaries[i]
            /\ execution_summaries_inited'[i] = execution_summaries_inited[i]

\* C12 as stated: in streaming mode, for every connection i and every
\* executor id of the first payload of connection i, each field of slot i
\* is the maximum of that field over all payloads received from i, and
\* payloads of connection j do not change slot i.
C12_AnyFirstPayload ==
    /\ [](is_streaming_reader =>
            \A i \in Sources :
                PayloadsFrom(i) # <<>> =>
                    \A k \in Keys(PayloadsFrom(i)[1]) :
                        MaxOfPayloads(execution_summaries[i], PayloadsFrom(i), k))
    /\ [][SlotsIsolated]_vars

\* C12: in streaming mode, for every connection i whose first payload names
\* no executor id twice and every executor id of that payload, each field
\* of slot i is the maximum of that field over all payloads received from
\* i, and payloads of connection j do not change slot i.
C12_StreamingMaxPerConnection ==
    /\ [](is_streaming_reader =>
            \A i \in Sources :
                (PayloadsFrom(i) # <<>> /\ NoDup(PayloadsFrom(i)[1])) =>
                    \A k \in Keys(PayloadsFrom(i)[1]) :
                        MaxOfPayloads(execution_summaries[i], PayloadsFrom(i), k))
    /\ [][SlotsIsolated]_vars

\* the last connection sent the rows of an executor and then its time, the
\* first connection sent a payload in between
C12_Witness ==
    /\ is_streaming_reader
    /\ Len(PayloadsFrom(NumSources - 1)) = 2
    /\ Len(PayloadsFrom(0)) = 1
    /\ received[2].call_index = 0
    /\ NoDup(PayloadsFrom(NumSources - 1)[1])
    /\ \E k \in Keys(PayloadsFrom(NumSources - 1)[1]) :
         /\ execution_summaries[NumSources - 1][k].num_produced_rows = 1
         /\ execution_summaries[NumSources - 1][k].time_processed_ns = 1
         /\ k \notin DOMAIN execution_summaries[0]

\* the summary lists of all the payloads received so far
AllPayloads ==
    LET got == SelectSeq(received, IsPayload)
    IN [j \in 1..Len(got) |-> got[j].summaries]

\* the report names executor k in one entry
NamesOnce(report, k) ==
    Cardinality({ j \in 1..Len(report) :
                    report[j].has_executor_id /\ report[j].executor_id = k }) = 1

\* C13: in batch mode every payload is merged into slot 0 whatever the
\* call index of its result: when each payload received so far names an
\* executor id once, slot 0 holds for it the sum of the rows and the
\* maximum of the times of all of them, and the slots from 1 on are never
\* published.
C13_BatchAllIntoSlotZero ==
    ~is_streaming_reader =>
        /\ \A i \in Sources \ {0} :
             /\ ~execution_summaries_inited[i]
             /\ execution_summaries[i] = EmptyMap
        /\ \A k \in ExecutorIds :
             (/\ AllPayloads # <<>>
              /\ \A j \in 1..Len(AllPayloads) : NamesOnce(AllPayloads[j], k))
             => /\ k \in DOMAIN execution_summaries[0]
                /\ execution_summaries[0][k].num_produced_rows
                     = SumOver(Flatten(AllPayloads), k, "num_produced_rows")
                /\ execution_summaries[0][k].time_processed_ns
                     = MaxOver(Flatten(AllPayloads), k, "time_processed_ns")

\* three contributors, not all with call index 0, reported the same
\* executor once each: two its rows and one its time
C13_Witness ==
    /\ ~is_streaming_reader
    /\ Len(AllPayloads) = MaxSummaryFetches
    /\ \E j \in 1..Len(received) : received[j].call_index # 0
    /\ \E k \in ExecutorIds :
         /\ \A j \in 1..Len(AllPayloads) : NamesOnce(AllPayloads[j], k)
         /\ execution_summaries[0][k].num_produced_rows = 2
         /\ execution_summaries[0][k].time_processed_ns = 1

\* the blocks the calls of nextResult appended, in the order of the calls
RECURSIVE Enqueued(_)
Enqueued(results) ==
    IF results = <<>> THEN <<>>
    ELSE Enqueued(SubSeq(results, 1, Len(results) - 1))
            \o NewBlocks(Len(results), results[Len(results)].blocks)

\* C14: nextResult is called only when block_queue is empty; the blocks
\* the readImpl calls returned, followed by the blocks still queued, are
\* the blocks the fetches appended, in the order of the fetches, each once;
\* a readImpl that returns a block takes one block off the queue.
C14_QueueIsFifo ==
    /\ [](delivered \o block_queue = Enqueued(received))
    /\ [][/\ Fetched => block_queue = <<>>
          /\ delivered' # delivered =>
               /\ ret' = RetBlock(delivered'[Len(delivered')])
               /\ Len(delivered') = Len(delivered) + 1
               /\ Len(block_queue') =
                    Len(Enqueued(received')) - Len(delivered')]_vars

\* two fetches of two blocks each were read block by block to the end
C14_Witness ==
    /\ Len(delivered) = 2 * MaxRows
    /\ delivered[1][1] = 1
    /\ delivered[MaxRows + 1] = <<2, 1>>
    /\ block_queue = <<>>
    /\ ret = RetBlock(<<2, MaxRows>>)

\* the results received so far that were neither failures nor the end of
\* the stream and that are attributed to index k: to their call index by a
\* streaming reader, to 0 by a batch reader
CountedFor(k) ==
    { j \in 1..Len(received) :
        /\ ~received[j].meet_error
        /\ ~received[j].eof
        /\ received[j].resp # "error"
        /\ k = IF is_streaming_reader THEN received[j].call_index ELSE 0 }

RECURSIVE BytesOf(_)
BytesOf(js) ==
    IF js = {} THEN 0
    ELSE LET j == CHOOSE x \in js : TRUE
         IN received[j].packet_bytes + BytesOf(js \ {j})

\* C15: the packet counter of connection_profile_infos[k] is the number of
\* results attributed to k that were neither failures nor the end of the
\* stream, those without rows included, and the byte counter is the sum of
\* their packet_bytes; a batch reader attributes every result to index 0
\* and the counters from index 1 on stay zero.
C15_ProfileCounters ==
    /\ \A k \in Sources :
         /\ connection_profile_infos[k].packets = Cardinality(CountedFor(k))
         /\ connection_profile_infos[k].bytes = BytesOf(CountedFor(k))
    /\ ~is_streaming_reader =>
         \A k \in Sources \ {0} :
            connection_profile_infos[k] = [packets |-> 0, bytes |-> 0]

\* a batch reader got a result without rows from its last call index and
\* then the end of the stream
C15_Witness ==
    /\ ~is_streaming_reader
    /\ Len(received) = 2
    /\ received[1].rows = 0
    /\ received[1].call_index = NumSources - 1
    /\ received[2].eof
    /\ connection_profile_infos[0] =
          [packets |-> 1, bytes |-> received[1].packet_bytes]
    /\ received[1].packet_bytes # received[2].packet_bytes

\* C16: every call of nextResult, the calls that follow a result without
\* rows included, is passed the stream_id the stream was constructed with,
\* and no step changes stream_id.
C16_StreamIdForwarded ==
    [][/\ stream_id' = stream_id
       /\ Fetched => last_stream_id' = stream_id]_vars

\* a stream constructed with partition 1 called nextResult again after a
\* result without rows
C16_Witness ==
    /\ stream_id = 1
    /\ last_stream_id = 1
    /\ fetches = 2
    /\ received[1].rows = 0
    /\ ~received[1].eof /\ ~received[1].meet_error

\* C17: the flags of a result are looked at in a fixed order: the failure
\* flag, then the eof flag, then the error of the response.  A result with
\* the eof flag and no failure flag ends the stream with an empty block
\* even when it has a response: the error of that response is not thrown,
\* its summaries are not merged and no counter is updated.
C17_FlagPrecedence ==
    [][Fetched =>
        /\ result'.meet_error => ret' = RetError(result'.error_msg)
        /\ (~result'.meet_error /\ result'.eof) =>
              /\ ret' = RetEof
              /\ pc' = "finished"
              /\ UNCHANGED <<execution_summaries, execution_summaries_inited,
                             not_found_warnings, connection_profile_infos,
                             total_rows, block_queue>>
        /\ (~result'.meet_error /\ ~result'.eof /\ result'.resp = "error") =>
              ret' = RetError(result'.resp_error)]_vars

\* the stream ended on a result with the eof flag whose response has an
\* error and a summary for an executor of its published slot
C17_Witness ==
    /\ pc = "finished"
    /\ ret = RetEof
    /\ ~result.meet_error /\ result.eof /\ result.resp = "error"
    /\ Len(result.summaries) > 0
    /\ execution_summaries_inited[SummaryIndex(result)]
    /\ result.summaries[1].executor_id
          \in DOMAIN execution_summaries[SummaryIndex(result)]

\* the summary lists of the payloads received so far for slot i: those of
\* connection i for a streaming reader, all of them in slot 0 for a batch
\* reader
PayloadsInto(i) ==
    IF is_streaming_reader THEN PayloadsFrom(i)
    ELSE IF i = 0 THEN AllPayloads ELSE <<>>

\* a response with no summary at all was received for slot i
EmptyResponseInto(i) ==
    \E j \in 1..Len(received) :
        /\ received[j].resp = "ok"
        /\ Len(received[j].summaries) = 0
        /\ i = IF is_streaming_reader THEN received[j].call_index ELSE 0

\* C18: a slot is published by the first payload for it that has a
\* summary, and by nothing else: a payload without summaries does not
\* publish.  When no summary of that first payload has an executor id the
\* slot is published with an empty map, and the map stays empty whatever
\* summaries come later for the slot.
C18_PublishWithEmptyMap ==
    \A i \in Sources :
        /\ execution_summaries_inited[i] = (PayloadsInto(i) # <<>>)
        /\ (PayloadsInto(i) # <<>> /\ Keys(PayloadsInto(i)[1]) = {})
              => execution_summaries[i] = EmptyMap

\* after a response without summaries, a slot was published by a payload
\* whose summaries have no executor id, and a payload that names executors
\* followed for the same slot
C18_Witness ==
    \E i \in Sources :
        /\ EmptyResponseInto(i)
        /\ received[1].resp = "ok" /\ Len(received[1].summaries) = 0
        /\ Len(PayloadsInto(i)) = 2
        /\ Keys(PayloadsInto(i)[1]) = {}
        /\ Keys(PayloadsInto(i)[2]) = ExecutorIds
        /\ execution_summaries_inited[i]
        /\ execution_summaries[i] = EmptyMap
        /\ not_found_warnings = 2

====
